---- MODULE Spec2Model ----
(***************************************************************************)
(* Order processing over a message broker: the HTTP order endpoints        *)
(* (app/routers/orders.py), the publisher (app/events/publisher.py), the   *)
(* broker's direct exchange and its five queues, the consumer callback     *)
(* (app/events/base_consumer.py), the dispatch registry                    *)
(* (app/events/dispatcher.py) and the handlers (app/events/handlers.py).   *)
(*                                                                         *)
(* The callback is modelled as the broker invokes a consumer callback:     *)
(* with the channel, the delivery, the properties and the body, its four   *)
(* declared parameters.  The order status column is modelled by the value  *)
(* strings of OrderStatus, which the endpoints and handlers write and      *)
(* compare.                                                                *)
(*                                                                         *)
(* The specifications share the actions.  Spec: endpoints, seeding,        *)
(* clients of the exchange and the callback with a reachable broker.       *)
(* SpecFaults: the endpoints over any table of orders while the broker     *)
(* refuses connections, fails sends and closes the publisher's connection. *)
(* SpecProcesses: the consumer processes as their entry points start them  *)
(* and as the consuming loop invokes the registered callback.  SpecClose:  *)
(* publisher and consumer connections being closed and used again.         *)
(* SpecConcurrent: two server processes, each in a transition endpoint     *)
(* split at its database accesses.  SpecCodec: the JSON encoding and       *)
(* decoding of an envelope with a price.  SpecDrain: the consumers alone,  *)
(* on what the publishers left in the queues; SpecDrainFair adds that      *)
(* every consuming loop keeps running.                                     *)
(***************************************************************************)
EXTENDS Integers, Sequences, FiniteSets, TLC

\* ------------------------------------------------------------------ bounds
\* Orders that create_order may insert.
MaxOrders == 1
\* Messages the broker may hold at once (ready and unacknowledged together).
MaxQueue == 2
\* Consecutive connection attempts the broker may refuse.
MaxRefused == 6
\* Largest total price, in cents, the codec is applied to.
MaxCents == 6000

\* ------------------------------------------------------- program constants
\* basic_qos(prefetch_count=1)
prefetch_count == 1

\* for i in range(5): the connection attempts of EventPublisher._connect and
\* of BaseConsumer.__init__.
publisher_attempts == 5
consumer_attempts == 5

\* The value Python's dict.get returns for a missing key, and "no row".
None == "None"

\* OrderStatus, in declaration order.
OrderStatus ==
    << "created", "pending_payment", "in_preparation",
       "ready_to_ship", "shipped", "delivered" >>

StatusValues == { OrderStatus[i] : i \in 1..Len(OrderStatus) }

\* Position of a status in OrderStatus (0 for no row).
Rank(s) ==
    IF s \in StatusValues
    THEN CHOOSE i \in 1..Len(OrderStatus) : OrderStatus[i] = s
    ELSE 0

\* The column default as it would be with the second status.
DefaultStatus_pending == OrderStatus[2]

\* Column default of Order.status.
DefaultStatus == OrderStatus[1]

\* Order ids a request or an envelope may name: those that can exist and one
\* that never does.
IdInputs == 1..(MaxOrders + 1)

\* Queue name and routing key of each consumer entry point.
Bindings ==
    [ order_created_queue       |-> "order.created",
      order_paid_queue          |-> "order.paid",
      order_ready_to_ship_queue |-> "order.ready.to.ship",
      order_shipped_queue       |-> "order.shipped",
      order_delivered_queue     |-> "order.delivered" ]

Queues == DOMAIN Bindings

RoutingKeys == { Bindings[q] : q \in Queues }

\* The type tags the spec calls canonical and the spellings the endpoints put
\* in the "event" field.
CanonicalTags ==
    { "order.created", "order.paid", "order.ready.to.ship",
      "order.shipped", "order.delivered" }

LegacyTags ==
    { "OrderCreated", "OrderPaid", "OrderReadyToShip", "Shipped", "Delivered" }

UnknownTag == "order.cancelled"

\* Message bodies.  kind "garbage" is a body json.loads cannot parse, "scalar"
\* a JSON text that is no object, "object" a JSON object with an optional
\* "event" and an optional "order_id" (None: the key is missing).
Garbage == [kind |-> "garbage", event |-> None, order_id |-> 0]
Scalar  == [kind |-> "scalar",  event |-> None, order_id |-> 0]
Envelope(tag, id) == [kind |-> "object", event |-> tag, order_id |-> id]

\* The legacy spelling of each routing key's event type.
LegacyOf ==
    [ k \in RoutingKeys |->
        CASE k = "order.created" -> "OrderCreated"
          [] k = "order.paid" -> "OrderPaid"
          [] k = "order.ready.to.ship" -> "OrderReadyToShip"
          [] k = "order.shipped" -> "Shipped"
          [] k = "order.delivered" -> "Delivered" ]

\* The traffic a run's producers put on the exchange, as << routing key,
\* body >>: the envelope of each type under its own key for an order that may
\* exist ("canonical"), the same with the legacy spelling of the type
\* ("legacy"), the same for an order id that names no row ("no_order"), or
\* bodies the consumer cannot use ("unusable").  "crossed" is the envelope of
\* each type under the routing key of the type before it, which no endpoint
\* publishes and any other client of the exchange can.
Traffic == {"canonical", "legacy", "no_order", "unusable"}

\* The type whose routing key follows k in the order's life, the first after
\* the last.
NextType ==
    [ k \in RoutingKeys |->
        CASE k = "order.created" -> "order.paid"
          [] k = "order.paid" -> "order.ready.to.ship"
          [] k = "order.ready.to.ship" -> "order.shipped"
          [] k = "order.shipped" -> "order.delivered"
          [] k = "order.delivered" -> "order.created" ]

Produced(t) ==
    CASE t = "canonical" -> { << k, Envelope(k, 1) >> : k \in RoutingKeys }
      [] t = "legacy" -> { << k, Envelope(LegacyOf[k], 1) >> : k \in RoutingKeys }
      [] t = "no_order" -> { << k, Envelope(k, MaxOrders + 1) >> : k \in RoutingKeys }
      [] t = "unusable" ->
             {"order.created"} \X
                 {Garbage, Scalar, Envelope(None, 1), Envelope(UnknownTag, 1)}
      [] t = "crossed" -> { << k, Envelope(NextType[k], 1) >> : k \in RoutingKeys }

\* ------------------------------------------------------------------- state
VARIABLES
    orders,    \* orders table: id -> status, None while the row does not exist
    queues,    \* queue -> messages ready for delivery, oldest first
    unacked,   \* queue -> messages delivered to its consumer, not yet settled
    last,      \* what the last request, publish, callback or process did
    traffic,   \* the kind of traffic the producers of this run publish
    publisher, \* connection and channel of the endpoints' EventPublisher
    consumer,  \* queue -> the consumer process of its entry point
    exchange,  \* properties order_exchange was declared with, None before
    requests   \* server process -> the transition request it is handling

vars ==
    << orders, queues, unacked, last, traffic, publisher, consumer, exchange,
       requests >>

\* No exception, and the exceptions a call can end with: the class, and the
\* event type an EventPublishingError names in its message.
NoError == [type |-> None, event_type |-> None]
Error(type) == [type |-> type, event_type |-> None]

\* What the network does during one call: how many of the next connection
\* attempts the broker refuses, and whether sending on the channel works
\* ("ok"), loses the connection or finds the channel closed by the broker.
SendOutcomes == {"ok", "connection_lost", "channel_closed"}

Net(refused, send) == [refused |-> refused, send |-> send]

\* A reachable broker.
Healthy == Net(0, "ok")

\* The exchange before any process declared it.
NoExchange == [exchange_type |-> None, durable |-> FALSE]

\* A number a codec step has not produced.
NoNumber == [type |-> None, cents |-> 0, exact |-> TRUE]

Idle ==
    [ op |-> "init", order_id |-> 0, code |-> 0, routing_key |-> None,
      queue |-> None, body |-> Garbage, handler |-> None,
      raised |-> FALSE, verdict |-> None, before |-> None, after |-> None,
      net |-> Healthy, attempts |-> 0, declares |-> 0, sent |-> FALSE,
      error |-> NoError, tracking_info |-> None, db_ok |-> TRUE, calls |-> 0,
      writes |-> 0, assigned |-> {}, session |-> None, acks |-> 0, nacks |-> 0,
      closes |-> 0, to |-> None, delivery_mode |-> 0,
      total_price |-> NoNumber, decoded |-> NoNumber ]

NumOrders == Cardinality({ i \in DOMAIN orders : orders[i] # None })

Held(qs, un) ==
    LET RECURSIVE Sum(_)
        Sum(S) == IF S = {} THEN 0
                  ELSE LET q == CHOOSE x \in S : TRUE
                       IN Len(qs[q]) + Len(un[q]) + Sum(S \ {q})
    IN Sum(Queues)

\* ------------------------------------------------------------------ broker
\* Direct exchange: the queues whose binding key equals the routing key.
Route(routing_key) == { q \in Queues : Bindings[q] = routing_key }

\* basic_publish without the mandatory flag: the body is appended to every
\* queue the key routes to, and dropped when it routes to none.
basic_publish(qs, routing_key, body) ==
    [ q \in Queues |-> IF q \in Route(routing_key) THEN Append(qs[q], body)
                                                  ELSE qs[q] ]

\* exchange_declare: the first declaration creates the exchange with the
\* given properties; a later one succeeds when its properties equal those the
\* exchange has, and else the broker closes the channel (406
\* PRECONDITION_FAILED), which the library raises as ChannelClosedByBroker.
exchange_declare(exch, properties) ==
    IF exch = NoExchange
    THEN [exchange |-> properties, error |-> NoError]
    ELSE IF exch = properties
    THEN [exchange |-> exch, error |-> NoError]
    ELSE [exchange |-> exch, error |-> Error("ChannelClosedByBroker")]

\* --------------------------------------------------------------- publisher
\* EventPublisher.__init__
NewPublisher == [connection |-> None, channel |-> None]

\* exchange_declare(exchange=..., exchange_type="direct"): durable is left at
\* the library's default.
publisher_exchange == [exchange_type |-> "direct", durable |-> FALSE]

\* BasicProperties(delivery_mode=2), and the exchange_name default.
delivery_mode == 2
exchange_name == "order_exchange"

\* One accepted connection attempt of _connect: connection and channel are
\* assigned, then the exchange is declared.  ChannelClosedByBroker is no
\* AMQPConnectionError, so it leaves the loop and _connect.
connected(pub, exch, attempts) ==
    LET d == exchange_declare(exch, publisher_exchange)
    IN [publisher |-> [connection |-> "open",
                       channel |-> IF d.error = NoError THEN "open" ELSE "closed"],
        exchange |-> d.exchange, attempts |-> attempts, declares |-> 1,
        error |-> d.error]

\* _connect as it would be with one more round in its loop.
_connect_six(pub, refused, exch) ==
    IF pub.connection = None \/ pub.connection = "closed"
    THEN LET RECURSIVE loop(_)
             loop(i) ==
                 IF i = publisher_attempts + 1
                 THEN [publisher |-> pub, exchange |-> exch, attempts |-> i,
                       declares |-> 0, error |-> Error("Exception")]
                 ELSE IF i < refused
                 THEN loop(i + 1)
                 ELSE connected(pub, exch, i + 1)
         IN loop(0)
    ELSE [publisher |-> pub, exchange |-> exch, attempts |-> 0, declares |-> 0,
          error |-> NoError]

\* _connect as it would be without the test of the connection.
_connect_always(pub, refused, exch) ==
    LET RECURSIVE loop(_)
        loop(i) ==
            IF i = publisher_attempts
            THEN [publisher |-> pub, exchange |-> exch, attempts |-> i,
                  declares |-> 0, error |-> Error("Exception")]
            ELSE IF i < refused
            THEN loop(i + 1)
            ELSE connected(pub, exch, i + 1)
    IN loop(0)

\* EventPublisher._connect: nothing while the connection is open; else up to
\* five attempts, the first that is accepted opening the channel and declaring
\* the exchange; the loop's else clause raises a plain Exception.
_connect(pub, refused, exch) ==
    IF pub.connection = None \/ pub.connection = "closed"
    THEN LET RECURSIVE loop(_)
             loop(i) ==
                 IF i = publisher_attempts
                 THEN [publisher |-> pub, exchange |-> exch, attempts |-> i,
                       declares |-> 0, error |-> Error("Exception")]
                 ELSE IF i < refused
                 THEN loop(i + 1)
                 ELSE connected(pub, exch, i + 1)
         IN loop(0)
    ELSE [publisher |-> pub, exchange |-> exch, attempts |-> 0, declares |-> 0,
          error |-> NoError]

\* What publish_event returns to the model when nothing was sent.
NotSent(c, pub, qs, error) ==
    [publisher |-> pub, exchange |-> c.exchange, queues |-> qs,
     attempts |-> c.attempts, declares |-> c.declares, sent |-> FALSE,
     to |-> None, delivery_mode |-> 0, error |-> error]

\* basic_publish(exchange=self.exchange_name, routing_key=event_type, ...,
\* properties=BasicProperties(delivery_mode=mode)) on an open channel.
Sent(c, qs, event_type, data, mode) ==
    [publisher |-> c.publisher, exchange |-> c.exchange,
     queues |-> basic_publish(qs, event_type, data),
     attempts |-> c.attempts, declares |-> c.declares, sent |-> TRUE,
     to |-> exchange_name, delivery_mode |-> mode, error |-> NoError]

\* publish_event as it would be if it called _connect once more after a
\* failed _connect.
publish_event_retry(pub, exch, qs, event_type, data, net) ==
    LET c1 == _connect(pub, net.refused, exch)
        c2 == _connect(c1.publisher, net.refused - c1.attempts, c1.exchange)
        c  == IF c1.error = NoError THEN c1
              ELSE [c2 EXCEPT !.attempts = c1.attempts + c2.attempts]
        failed == [type |-> "EventPublishingError", event_type |-> event_type]
    IN IF c.error # NoError
       THEN NotSent(c, c.publisher, qs, c.error)
       ELSE IF c.publisher.channel # "open" \/ net.send # "ok"
       THEN NotSent(c, [connection |-> "closed", channel |-> "closed"], qs, failed)
       ELSE Sent(c, qs, event_type, data, delivery_mode)

\* publish_event as it would be without its except clause: the exception of
\* basic_publish reaches the caller as it is.
publish_event_unwrapped(pub, exch, qs, event_type, data, net) ==
    LET c == _connect(pub, net.refused, exch)
    IN IF c.error # NoError
       THEN NotSent(c, c.publisher, qs, c.error)
       ELSE IF c.publisher.channel # "open" \/ net.send # "ok"
       THEN NotSent(c, [connection |-> "closed", channel |-> "closed"], qs,
                    Error("AMQPError"))
       ELSE Sent(c, qs, event_type, data, delivery_mode)

\* publish_event as it would be with the library's default properties:
\* delivery mode 1, transient.
publish_event_transient(pub, exch, qs, event_type, data, net) ==
    LET c == _connect(pub, net.refused, exch)
        failed == [type |-> "EventPublishingError", event_type |-> event_type]
    IN IF c.error # NoError
       THEN NotSent(c, c.publisher, qs, c.error)
       ELSE IF c.publisher.channel # "open" \/ net.send # "ok"
       THEN NotSent(c, [connection |-> "closed", channel |-> "closed"], qs, failed)
       ELSE Sent(c, qs, event_type, data, 1)

\* EventPublisher.publish_event: connect if needed, then basic_publish with
\* the event type as routing key; an exception of basic_publish is wrapped in
\* an EventPublishingError, one of _connect passes through as it is.
publish_event(pub, exch, qs, event_type, data, net) ==
    LET c == _connect(pub, net.refused, exch)
        failed == [type |-> "EventPublishingError", event_type |-> event_type]
    IN IF c.error # NoError
       THEN NotSent(c, c.publisher, qs, c.error)
       ELSE IF c.publisher.channel # "open"
       THEN NotSent(c, c.publisher, qs, failed)
       ELSE IF net.send = "ok"
       THEN Sent(c, qs, event_type, data, delivery_mode)
       ELSE IF net.send = "connection_lost"
       THEN NotSent(c, [connection |-> "closed", channel |-> "closed"], qs, failed)
       ELSE NotSent(c, [c.publisher EXCEPT !.channel = "closed"], qs, failed)

\* close as it would be without the test of the connection: closing a
\* connection that is closed raises ConnectionWrongStateError, and None has no
\* close().
close_unchecked(pub) ==
    IF pub.connection = "open"
    THEN [publisher |-> [pub EXCEPT !.connection = "closed", !.channel = "closed"],
          closes |-> 1, error |-> NoError]
    ELSE [publisher |-> pub, closes |-> 0,
          error |-> IF pub.connection = None THEN Error("AttributeError")
                    ELSE Error("ConnectionWrongStateError")]

\* EventPublisher.close: closes the connection when there is one and it is
\* not closed; closes counts the calls of connection.close().
close(pub) ==
    IF pub.connection # None /\ pub.connection # "closed"
    THEN [publisher |-> [pub EXCEPT !.connection = "closed", !.channel = "closed"],
          closes |-> 1, error |-> NoError]
    ELSE [publisher |-> pub, closes |-> 0, error |-> NoError]

\* basic_ack: the delivery is settled and the message is gone.
basic_ack(qs, un, q) ==
    [ queues |-> qs, unacked |-> [un EXCEPT ![q] = Tail(@)], verdict |-> "ack",
      acks |-> 1, nacks |-> 0 ]

\* basic_nack: the delivery is settled; with requeue the broker puts the
\* message back at the head of its queue, without it the message is dropped.
basic_nack(qs, un, q, requeue) ==
    [ queues  |-> IF requeue THEN [qs EXCEPT ![q] = << Head(un[q]) >> \o @] ELSE qs,
      unacked |-> [un EXCEPT ![q] = Tail(@)],
      verdict |-> IF requeue THEN "requeue" ELSE "nack",
      acks |-> 0, nacks |-> 1 ]

\* ---------------------------------------------------------------- handlers
\* db.query(Order).filter(Order.id == order_id).first()
first(db, order_id) ==
    IF order_id \in DOMAIN db /\ db[order_id] # None THEN order_id ELSE 0

\* handle_order_created as it would be if it raised for an order it does
\* not find.
handle_order_created_strict(event, db, db_ok) ==
    IF ~db_ok THEN [raised |-> TRUE, writes |-> 0, assigned |-> {}, session |-> "open",
          db |-> db]
    ELSE LET order == first(db, event.order_id)
         IN IF order # 0
            THEN [raised |-> FALSE, writes |-> 1, assigned |-> {"status"},
                  session |-> "closed",
                  db |-> [db EXCEPT ![order] = "pending_payment"]]
            ELSE [raised |-> TRUE, writes |-> 0, assigned |-> {}, session |-> "open",
          db |-> db]

\* A handler's result: whether it raised, the assignments to order.status it
\* made, the attributes of the order it assigned, whether the session it
\* opened is closed when it ends, and the table it leaves.  db_ok is whether
\* the database answers the handler's statements; when it does not, the
\* statement raises and the handler ends there.
handle_order_created(event, db, db_ok) ==
    IF ~db_ok THEN [raised |-> TRUE, writes |-> 0, assigned |-> {}, session |-> "open",
          db |-> db]
    ELSE LET order == first(db, event.order_id)
         IN IF order # 0
            THEN [raised |-> FALSE, writes |-> 1, assigned |-> {"status"},
                  session |-> "closed",
                  db |-> [db EXCEPT ![order] = "pending_payment"]]
            ELSE [raised |-> FALSE, writes |-> 0, assigned |-> {},
                  session |-> "closed", db |-> db]

\* handle_order_payed as it would be with the status Order.mark_as_paid
\* assigns.
handle_order_payed_wrong(event, db, db_ok) ==
    IF ~db_ok THEN [raised |-> TRUE, writes |-> 0, assigned |-> {}, session |-> "open",
          db |-> db]
    ELSE LET order == first(db, event.order_id)
         IN IF order # 0
            THEN [raised |-> FALSE, writes |-> 1, assigned |-> {"status"},
                  session |-> "closed",
                  db |-> [db EXCEPT ![order] = "pending_payment"]]
            ELSE [raised |-> FALSE, writes |-> 0, assigned |-> {},
                  session |-> "closed", db |-> db]

handle_order_payed(event, db, db_ok) ==
    IF ~db_ok THEN [raised |-> TRUE, writes |-> 0, assigned |-> {}, session |-> "open",
          db |-> db]
    ELSE LET order == first(db, event.order_id)
         IN IF order # 0
            THEN [raised |-> FALSE, writes |-> 1, assigned |-> {"status"},
                  session |-> "closed",
                  db |-> [db EXCEPT ![order] = "in_preparation"]]
            ELSE [raised |-> FALSE, writes |-> 0, assigned |-> {},
                  session |-> "closed", db |-> db]

handle_order_ready_to_ship(event, db, db_ok) ==
    IF ~db_ok THEN [raised |-> TRUE, writes |-> 0, assigned |-> {}, session |-> "open",
          db |-> db]
    ELSE LET order == first(db, event.order_id)
         IN IF order # 0
            THEN [raised |-> FALSE, writes |-> 1, assigned |-> {"status"},
                  session |-> "closed",
                  db |-> [db EXCEPT ![order] = "ready_to_ship"]]
            ELSE [raised |-> FALSE, writes |-> 0, assigned |-> {},
                  session |-> "closed", db |-> db]

\* handle_shipped as it would be if it also stored the tracking number.
handle_shipped_tracking(event, db, db_ok) ==
    IF ~db_ok THEN [raised |-> TRUE, writes |-> 0, assigned |-> {}, session |-> "open",
                    db |-> db]
    ELSE LET order == first(db, event.order_id)
         IN IF order # 0
            THEN [raised |-> FALSE, writes |-> 1,
                  assigned |-> {"status", "tracking_number"},
                  session |-> "closed",
                  db |-> [db EXCEPT ![order] = "shipped"]]
            ELSE [raised |-> FALSE, writes |-> 0, assigned |-> {},
                  session |-> "closed", db |-> db]

handle_shipped(event, db, db_ok) ==
    IF ~db_ok THEN [raised |-> TRUE, writes |-> 0, assigned |-> {}, session |-> "open",
          db |-> db]
    ELSE LET order == first(db, event.order_id)
         IN IF order # 0
            THEN [raised |-> FALSE, writes |-> 1, assigned |-> {"status"},
                  session |-> "closed",
                  db |-> [db EXCEPT ![order] = "shipped"]]
            ELSE [raised |-> FALSE, writes |-> 0, assigned |-> {},
                  session |-> "closed", db |-> db]

handle_delivered(event, db, db_ok) ==
    IF ~db_ok THEN [raised |-> TRUE, writes |-> 0, assigned |-> {}, session |-> "open",
          db |-> db]
    ELSE LET order == first(db, event.order_id)
         IN IF order # 0
            THEN [raised |-> FALSE, writes |-> 1, assigned |-> {"status"},
                  session |-> "closed",
                  db |-> [db EXCEPT ![order] = "delivered"]]
            ELSE [raised |-> FALSE, writes |-> 0, assigned |-> {},
                  session |-> "closed", db |-> db]

\* Calling a registered handler function by its name.
Call(handler_func, event, db, db_ok) ==
    CASE handler_func = "handle_order_created" -> handle_order_created(event, db, db_ok)
      [] handler_func = "handle_order_payed" -> handle_order_payed(event, db, db_ok)
      [] handler_func = "handle_order_ready_to_ship" ->
             handle_order_ready_to_ship(event, db, db_ok)
      [] handler_func = "handle_shipped" -> handle_shipped(event, db, db_ok)
      [] handler_func = "handle_delivered" -> handle_delivered(event, db, db_ok)

\* -------------------------------------------------------------- dispatcher
\* handlers[event_type] = handler_func
register_handler(registry, event_type, handler_func) ==
    [ t \in DOMAIN registry \cup {event_type} |->
        IF t = event_type THEN handler_func ELSE registry[t] ]

\* The registry as it would be with the handlers of order.paid and
\* order.shipped registered for each other's type.
handlers_swapped ==
    LET h0 == [ t \in {} |-> None ]
        h1 == register_handler(h0, "order.created", "handle_order_created")
        h2 == register_handler(h1, "order.paid", "handle_shipped")
        h3 == register_handler(h2, "order.ready.to.ship", "handle_order_ready_to_ship")
        h4 == register_handler(h3, "order.shipped", "handle_order_payed")
    IN register_handler(h4, "order.delivered", "handle_delivered")

\* The registry after the module's five register_handler calls.
handlers ==
    LET h0 == [ t \in {} |-> None ]
        h1 == register_handler(h0, "order.created", "handle_order_created")
        h2 == register_handler(h1, "order.paid", "handle_order_payed")
        h3 == register_handler(h2, "order.ready.to.ship", "handle_order_ready_to_ship")
        h4 == register_handler(h3, "order.shipped", "handle_shipped")
    IN register_handler(h4, "order.delivered", "handle_delivered")

\* dispatch_event as it would be without the membership test: looking up an
\* unregistered type raises KeyError.
dispatch_event_unchecked(event, db, db_ok) ==
    IF event.kind # "object"
    THEN [raised |-> TRUE, handler |-> None, calls |-> 0, writes |-> 0,
          assigned |-> {}, session |-> None, db |-> db]
    ELSE LET event_type == event.event
         IN IF event_type \in DOMAIN handlers
            THEN LET r == Call(handlers[event_type], event, db, db_ok)
                 IN [raised |-> r.raised, handler |-> handlers[event_type],
                     calls |-> 1, writes |-> r.writes,
                     assigned |-> r.assigned, session |-> r.session, db |-> r.db]
            ELSE [raised |-> TRUE, handler |-> None, calls |-> 0, writes |-> 0,
          assigned |-> {}, session |-> None, db |-> db]

\* dispatch_event on a parsed body.  A value that is no dict has no get().
dispatch_event(event, db, db_ok) ==
    IF event.kind # "object"
    THEN [raised |-> TRUE, handler |-> None, calls |-> 0, writes |-> 0,
          assigned |-> {}, session |-> None, db |-> db]
    ELSE LET event_type == event.event
         IN IF event_type \in DOMAIN handlers
            THEN LET r == Call(handlers[event_type], event, db, db_ok)
                 IN [raised |-> r.raised, handler |-> handlers[event_type],
                     calls |-> 1, writes |-> r.writes,
                     assigned |-> r.assigned, session |-> r.session, db |-> r.db]
            ELSE [raised |-> FALSE, handler |-> None, calls |-> 0, writes |-> 0,
          assigned |-> {}, session |-> None, db |-> db]

\* json.loads: raises on a body that is no JSON text.
json_loads(body) ==
    IF body.kind = "garbage" THEN [raised |-> TRUE, value |-> body]
                             ELSE [raised |-> FALSE, value |-> body]

\* callback as it would be with requeue=True in the except branch.
callback_result_requeue(qs, un, q, db, db_ok) ==
    LET body   == Head(un[q])
        parsed == json_loads(body)
        d      == IF parsed.raised
                  THEN [raised |-> TRUE, handler |-> None, calls |-> 0, writes |-> 0,
          assigned |-> {}, session |-> None, db |-> db]
                  ELSE dispatch_event(parsed.value, db, db_ok)
        settle == IF d.raised THEN basic_nack(qs, un, q, TRUE)
                              ELSE basic_ack(qs, un, q)
    IN [ raised |-> d.raised, handler |-> d.handler, calls |-> d.calls,
         writes |-> d.writes, assigned |-> d.assigned, session |-> d.session,
         acks |-> settle.acks, nacks |-> settle.nacks,
         db |-> d.db,
         queues |-> settle.queues, unacked |-> settle.unacked,
         verdict |-> settle.verdict ]

\* callback as it would be if a consumer dispatched only the type of its own
\* routing key and rejected every other body.
callback_result_own_key(qs, un, q, db, db_ok) ==
    LET body   == Head(un[q])
        parsed == json_loads(body)
        d      == IF parsed.raised \/ body.event # Bindings[q]
                  THEN [raised |-> TRUE, handler |-> None, calls |-> 0, writes |-> 0,
                        assigned |-> {}, session |-> None, db |-> db]
                  ELSE dispatch_event(parsed.value, db, db_ok)
        settle == IF d.raised THEN basic_nack(qs, un, q, FALSE)
                              ELSE basic_ack(qs, un, q)
    IN [ raised |-> d.raised, handler |-> d.handler, calls |-> d.calls,
         writes |-> d.writes, assigned |-> d.assigned, session |-> d.session,
         acks |-> settle.acks, nacks |-> settle.nacks,
         db |-> d.db,
         queues |-> settle.queues, unacked |-> settle.unacked,
         verdict |-> settle.verdict ]

\* callback as it would be if a handler that returned published the event of
\* the next type through the module's event_publisher.
callback_result_chaining(qs, un, q, db, db_ok) ==
    LET body   == Head(un[q])
        parsed == json_loads(body)
        d      == IF parsed.raised
                  THEN [raised |-> TRUE, handler |-> None, calls |-> 0, writes |-> 0,
                        assigned |-> {}, session |-> None, db |-> db]
                  ELSE dispatch_event(parsed.value, db, db_ok)
        settle == IF d.raised THEN basic_nack(qs, un, q, FALSE)
                              ELSE basic_ack(qs, un, q)
        next   == IF d.handler # None /\ ~d.raised
                  THEN basic_publish(settle.queues, NextType[body.event],
                                     Envelope(NextType[body.event], body.order_id))
                  ELSE settle.queues
    IN [ raised |-> d.raised, handler |-> d.handler, calls |-> d.calls,
         writes |-> d.writes, assigned |-> d.assigned, session |-> d.session,
         acks |-> settle.acks, nacks |-> settle.nacks,
         db |-> d.db,
         queues |-> next, unacked |-> settle.unacked,
         verdict |-> settle.verdict ]

\* callback as it would be with the nack in a finally clause: issued after
\* the ack as well.
callback_result_finally(qs, un, q, db, db_ok) ==
    LET body   == Head(un[q])
        parsed == json_loads(body)
        d      == IF parsed.raised
                  THEN [raised |-> TRUE, handler |-> None, calls |-> 0, writes |-> 0,
                        assigned |-> {}, session |-> None, db |-> db]
                  ELSE dispatch_event(parsed.value, db, db_ok)
        settle == IF d.raised THEN basic_nack(qs, un, q, FALSE)
                              ELSE basic_ack(qs, un, q)
    IN [ raised |-> d.raised, handler |-> d.handler, calls |-> d.calls,
         writes |-> d.writes, assigned |-> d.assigned, session |-> d.session,
         acks |-> settle.acks, nacks |-> 1,
         db |-> d.db,
         queues |-> settle.queues, unacked |-> settle.unacked,
         verdict |-> settle.verdict ]

\* The body of BaseConsumer.callback: parse, dispatch, ack; on any exception
\* nack without requeue.
callback_result(qs, un, q, db, db_ok) ==
    LET body   == Head(un[q])
        parsed == json_loads(body)
        d      == IF parsed.raised
                  THEN [raised |-> TRUE, handler |-> None, calls |-> 0, writes |-> 0,
          assigned |-> {}, session |-> None, db |-> db]
                  ELSE dispatch_event(parsed.value, db, db_ok)
        settle == IF d.raised THEN basic_nack(qs, un, q, FALSE)
                              ELSE basic_ack(qs, un, q)
    IN [ raised |-> d.raised, handler |-> d.handler, calls |-> d.calls,
         writes |-> d.writes, assigned |-> d.assigned, session |-> d.session,
         acks |-> settle.acks, nacks |-> settle.nacks,
         db |-> d.db,
         queues |-> settle.queues, unacked |-> settle.unacked,
         verdict |-> settle.verdict ]

\* ------------------------------------------------------ consumer processes
\* The names the module app/events/base_consumer.py binds.
base_consumer_names ==
    { "json", "pika", "time", "os", "logger", "dispatch_event",
      "EventConsumptionError", "BaseConsumer" }

\* What each entry point imports from base_consumer and the positional
\* arguments it passes to start_consuming.
EntryPoints ==
    [ order_created_queue       |->
          [names |-> {"BaseConsumer", "consumer_callback"}, args |-> 1],
      order_paid_queue          |->
          [names |-> {"BaseConsumer", "consumer_callback"}, args |-> 1],
      order_ready_to_ship_queue |->
          [names |-> {"BaseConsumer", "consumer_callback"}, args |-> 1],
      order_shipped_queue       |->
          [names |-> {"BaseConsumer"}, args |-> 0],
      order_delivered_queue     |->
          [names |-> {"BaseConsumer", "consumer_callback"}, args |-> 1] ]

\* Parameters, self apart, of start_consuming(self) and of
\* EventConsumptionError.__init__(self, event_data, error); all parameters of
\* callback(ch, method, properties, body).
start_consuming_params == 0
EventConsumptionError_params == 2
callback_params == 4

\* The arguments the broker library passes to an on_message_callback
\* (channel, method, properties, body), and what callback receives when it is
\* registered as the bound method self.callback: the instance and those.
on_message_args == 4
bound_callback_args == 1 + on_message_args

\* A call with the wrong number of arguments raises TypeError before the
\* callee runs.
raise_EventConsumptionError(nargs) ==
    IF nargs = EventConsumptionError_params
    THEN Error("EventConsumptionError")
    ELSE Error("TypeError")

\* A consumer process: not started, in the consuming loop or exited; the
\* exception it ended with, whether it declared exchange, queue and binding,
\* and its connection (None until an attempt is accepted).
NotStarted ==
    [pc |-> "init", error |-> NoError, declared |-> FALSE, connection |-> None]

\* exchange_declare(exchange=..., exchange_type="direct", durable=True)
consumer_exchange == [exchange_type |-> "direct", durable |-> TRUE]

\* BaseConsumer.__init__: up to five connection attempts; the loop's else
\* clause raises EventConsumptionError with one argument; after the first
\* accepted attempt the channel is opened and exchange, queue and binding are
\* declared, and an exception of the declaration leaves the constructor.
BaseConsumer_init(refused, exch) ==
    LET RECURSIVE loop(_)
        loop(i) ==
            IF i = consumer_attempts
            THEN [attempts |-> i, declared |-> FALSE, connection |-> None,
                  exchange |-> exch, error |-> raise_EventConsumptionError(1)]
            ELSE IF i < refused
            THEN loop(i + 1)
            ELSE LET d == exchange_declare(exch, consumer_exchange)
                 IN [attempts |-> i + 1, declared |-> d.error = NoError,
                     connection |-> "open", exchange |-> d.exchange,
                     error |-> d.error]
    IN loop(0)

\* BaseConsumer.close: closes the connection when it is not closed.
BaseConsumer_close(connection) ==
    IF connection # None /\ connection # "closed"
    THEN [connection |-> "closed", closes |-> 1, error |-> NoError]
    ELSE [connection |-> connection, closes |-> 0, error |-> NoError]

\* BaseConsumer.start_consuming called with nargs positional arguments.
start_consuming(nargs) ==
    IF nargs = start_consuming_params THEN NoError ELSE Error("TypeError")

\* The import statement of the entry point of queue q.
import_base_consumer(q) ==
    IF EntryPoints[q].names \subseteq base_consumer_names
    THEN NoError
    ELSE Error("ImportError")

\* The __main__ block of the entry point of queue q after its imports, up to
\* the consuming loop: the constructor, then start_consuming.  Only
\* KeyboardInterrupt is caught, so any exception ends the process.  attempts
\* are the connection attempts the constructor made.
main_result(q, refused, exch) ==
    LET c == BaseConsumer_init(refused, exch)
        ended == IF c.connection = None THEN None ELSE "closed"
    IN IF c.error # NoError
       THEN [pc |-> "exited", error |-> c.error, attempts |-> c.attempts,
             declared |-> c.declared, connection |-> ended,
             exchange |-> c.exchange]
       ELSE IF start_consuming(EntryPoints[q].args) # NoError
       THEN [pc |-> "exited", error |-> start_consuming(EntryPoints[q].args),
             attempts |-> c.attempts, declared |-> c.declared,
             connection |-> ended, exchange |-> c.exchange]
       ELSE [pc |-> "consuming", error |-> NoError, attempts |-> c.attempts,
             declared |-> c.declared, connection |-> c.connection,
             exchange |-> c.exchange]

\* Status of the order a request or an envelope names (None: no such row).
StatusOf(db, order_id) ==
    IF first(db, order_id) # 0 THEN db[order_id] ELSE None

\* The server processes that handle requests at the same time, and a
\* process that is handling none: pc is "idle", "checked" once the order was
\* read and passed the endpoint's test, "done" once the response is sent.
Workers == {1, 2}

NoRequest ==
    [pc |-> "idle", op |-> None, order_id |-> 0, seen |-> None, code |-> 0,
     sent |-> FALSE, publisher |-> NewPublisher]

\* ------------------------------------------------------------------- Init
Init ==
    /\ orders = [ i \in 1..MaxOrders |-> None ]
    /\ queues = [ q \in Queues |-> << >> ]
    /\ unacked = [ q \in Queues |-> << >> ]
    /\ last = Idle
    /\ traffic \in Traffic
    /\ publisher = NewPublisher
    /\ consumer = [ q \in Queues |-> NotStarted ]
    /\ exchange = NoExchange
    /\ requests = [ w \in Workers |-> NoRequest ]

\* --------------------------------------------------------------- endpoints
\* What an endpoint's publish_event call leaves in last: what the network
\* did, the attempts and declarations made, whether the message was sent, the
\* exception, and the response code (an exception that is no HTTPException
\* answers 500).
Published(rec, r, net, ok_code, event_type, data) ==
    [rec EXCEPT !.net = net, !.attempts = r.attempts, !.declares = r.declares,
                !.sent = r.sent, !.error = r.error, !.to = r.to,
                !.delivery_mode = r.delivery_mode,
                !.code = IF r.error = NoError THEN ok_code ELSE 500,
                !.routing_key = IF r.sent THEN event_type ELSE None,
                !.body = IF r.sent THEN data ELSE Garbage]

\* POST /orders/: items is "empty" (no items), "missing" (an item names no
\* product) or "ok"; nets is what the network may do during the call.  The
\* order row is committed before the items are looked up, and the rollback
\* after the commit undoes nothing.
create_order(items, nets) ==
    IF items = "empty"
    THEN /\ last' = [Idle EXCEPT !.op = "create_order", !.code = 400]
         /\ UNCHANGED << orders, queues, unacked, traffic, publisher, consumer, exchange,
                      requests >>
    ELSE /\ NumOrders < MaxOrders
         /\ LET id == NumOrders + 1
                data == Envelope("OrderCreated", id)
            IN /\ orders' = [orders EXCEPT ![id] = DefaultStatus]
               /\ IF items = "missing"
                  THEN /\ last' = [Idle EXCEPT !.op = "create_order", !.order_id = id,
                                               !.code = 404, !.after = DefaultStatus]
                       /\ UNCHANGED << queues, publisher, exchange >>
                  ELSE \E net \in nets :
                       LET r == publish_event(publisher, exchange, queues,
                                              "order.created", data, net)
                       IN /\ r.sent => Held(queues, unacked) < MaxQueue
                          /\ queues' = r.queues
                          /\ publisher' = r.publisher
                          /\ exchange' = r.exchange
                          /\ last' = Published(
                                 [Idle EXCEPT !.op = "create_order", !.order_id = id,
                                              !.after = DefaultStatus],
                                 r, net, 201, "order.created", data)
         /\ UNCHANGED << unacked, traffic, consumer, requests >>

\* seed_orders(db, count) of app/utils/seed_data.py: nothing without
\* products; else count times an Order() is added and committed, then its
\* line items.
seed_orders(products, count) ==
    /\ NumOrders + count <= MaxOrders
    /\ orders' = [ i \in DOMAIN orders |->
                     IF products /\ i > NumOrders /\ i <= NumOrders + count
                     THEN DefaultStatus ELSE orders[i] ]
    /\ last' = [Idle EXCEPT !.op = "seed_orders",
                            !.after = IF products THEN DefaultStatus ELSE None]
    /\ UNCHANGED << queues, unacked, traffic, publisher, consumer, exchange,
                    requests >>

\* transition as it would be without the test of the order's status.
transition_unguarded(op, order_id, required, target, event_type, tag, nets) ==
    LET before == StatusOf(orders, order_id)
        data   == Envelope(tag, order_id)
    IN /\ IF before = None
          THEN /\ last' = [Idle EXCEPT !.op = op, !.order_id = order_id, !.code = 404]
               /\ UNCHANGED << orders, queues, publisher, exchange >>
          ELSE \E net \in nets :
               LET r == publish_event(publisher, exchange, queues, event_type,
                                      data, net)
               IN /\ r.sent =>
                       Held(queues, unacked) + Cardinality(Route(event_type)) <= MaxQueue
                  /\ orders' = [orders EXCEPT ![order_id] = target]
                  /\ queues' = r.queues
                  /\ publisher' = r.publisher
                  /\ exchange' = r.exchange
                  /\ last' = Published(
                         [Idle EXCEPT !.op = op, !.order_id = order_id,
                                      !.before = before, !.after = target],
                         r, net, 200, event_type, data)
       /\ UNCHANGED << unacked, traffic, consumer, requests >>

\* The shape the four transition endpoints share: 404 without a row, 400
\* unless the status is the required one, else write, commit, publish.
transition(op, order_id, required, target, event_type, tag, nets) ==
    LET before == StatusOf(orders, order_id)
        data   == Envelope(tag, order_id)
    IN /\ IF before = None
          THEN /\ last' = [Idle EXCEPT !.op = op, !.order_id = order_id, !.code = 404]
               /\ UNCHANGED << orders, queues, publisher, exchange >>
          ELSE IF before # required
          THEN /\ last' = [Idle EXCEPT !.op = op, !.order_id = order_id, !.code = 400,
                                       !.before = before, !.after = before]
               /\ UNCHANGED << orders, queues, publisher, exchange >>
          ELSE \E net \in nets :
               LET r == publish_event(publisher, exchange, queues, event_type,
                                      data, net)
               IN /\ r.sent =>
                       Held(queues, unacked) + Cardinality(Route(event_type)) <= MaxQueue
                  /\ orders' = [orders EXCEPT ![order_id] = target]
                  /\ queues' = r.queues
                  /\ publisher' = r.publisher
                  /\ exchange' = r.exchange
                  /\ last' = Published(
                         [Idle EXCEPT !.op = op, !.order_id = order_id,
                                      !.before = before, !.after = target],
                         r, net, 200, event_type, data)
       /\ UNCHANGED << unacked, traffic, consumer, requests >>

pay_order(order_id, nets) ==
    /\ order_id \in IdInputs
    /\ transition("pay_order", order_id, "pending_payment", "in_preparation",
               "OrderPaid", "OrderPaid", nets)

mark_order_ready_to_ship(order_id, nets) ==
    /\ order_id \in IdInputs
    /\ transition("mark_order_ready_to_ship", order_id, "in_preparation", "ready_to_ship",
               "OrderReadyToShip", "OrderReadyToShip", nets)

mark_order_shipped(order_id, nets) ==
    /\ order_id \in IdInputs
    /\ transition("mark_order_shipped", order_id, "ready_to_ship", "shipped",
               "Shipped", "Shipped", nets)

mark_order_delivered(order_id, nets) ==
    /\ order_id \in IdInputs
    /\ transition("mark_order_delivered", order_id, "shipped", "delivered",
               "Delivered", "Delivered", nets)

\* The prior status each transition endpoint requires and the status it
\* writes.
EndpointTable ==
    [ pay_order                |-> << "pending_payment", "in_preparation" >>,
      mark_order_ready_to_ship |-> << "in_preparation", "ready_to_ship" >>,
      mark_order_shipped       |-> << "ready_to_ship", "shipped" >>,
      mark_order_delivered     |-> << "shipped", "delivered" >> ]

\* The event type each endpoint passes to publish_event.
EndpointEvent ==
    [ create_order |-> "order.created", pay_order |-> "OrderPaid",
      mark_order_ready_to_ship |-> "OrderReadyToShip",
      mark_order_shipped |-> "Shipped", mark_order_delivered |-> "Delivered" ]

\* ------------------------------------------------------ concurrent requests
\* A transition endpoint called in server process w, up to its test of the
\* status: the query, 404 without a row, 400 unless the status read is the
\* required one.  Nothing is locked, and the row is read in the request's own
\* session.
query_order(w, op, order_id) ==
    /\ requests[w].pc = "idle"
    /\ LET seen == StatusOf(orders, order_id)
           code == IF seen = None THEN 404
                   ELSE IF seen # EndpointTable[op][1] THEN 400
                   ELSE 0
       IN requests' = [requests EXCEPT ![w] =
                         [@ EXCEPT !.pc = IF code = 0 THEN "checked" ELSE "done",
                                   !.op = op, !.order_id = order_id,
                                   !.seen = seen, !.code = code]]
    /\ UNCHANGED << orders, queues, unacked, last, traffic, publisher, consumer,
                    exchange >>

\* The rest of the call: the status is assigned and committed (an UPDATE of
\* the row by its id, which succeeds whatever the row holds by then), then
\* the event is published with the process's own publisher.
commit_publish(w) ==
    /\ requests[w].pc = "checked"
    /\ LET rq == requests[w]
           event_type == EndpointEvent[rq.op]
           r  == publish_event(rq.publisher, exchange, queues, event_type,
                               Envelope(event_type, rq.order_id), Healthy)
       IN /\ r.sent =>
               Held(queues, unacked) + Cardinality(Route(event_type)) <= MaxQueue
          /\ orders' = [orders EXCEPT ![rq.order_id] = EndpointTable[rq.op][2]]
          /\ queues' = r.queues
          /\ exchange' = r.exchange
          /\ requests' = [requests EXCEPT ![w] =
                            [rq EXCEPT !.pc = "done",
                                       !.code = IF r.error = NoError THEN 200 ELSE 500,
                                       !.sent = r.sent, !.publisher = r.publisher]]
    /\ UNCHANGED << unacked, last, traffic, publisher, consumer >>

\* ---------------------------------------------------------------- producer
\* Any client of the exchange publishes a body under a bound routing key.
Publish(event_type, data) ==
    /\ Held(queues, unacked) < MaxQueue
    /\ queues' = basic_publish(queues, event_type, data)
    /\ last' = [Idle EXCEPT !.op = "publish_event"]
    /\ UNCHANGED << orders, unacked, traffic, publisher, consumer, exchange, requests >>

\* ---------------------------------------------------------------- consumer
\* Delivery as it would be without basic_qos: no limit on unsettled deliveries.
CanDeliver_unlimited(q) == queues[q] # << >>

\* The broker may push while fewer than prefetch_count deliveries of the
\* consumer are unsettled.
CanDeliver(q) == queues[q] # << >> /\ Len(unacked[q]) < prefetch_count

\* start_consuming: the broker delivers the oldest ready message of the queue.
Deliver(q) ==
    /\ CanDeliver(q)
    /\ unacked' = [unacked EXCEPT ![q] = Append(@, Head(queues[q]))]
    /\ queues' = [queues EXCEPT ![q] = Tail(@)]
    /\ UNCHANGED << orders, last, traffic, publisher, consumer, exchange, requests >>

\* BaseConsumer.callback on the oldest unsettled delivery of the queue.
callback(q, db_ok) ==
    /\ unacked[q] # << >>
    /\ LET body == Head(unacked[q])
           r    == callback_result(queues, unacked, q, orders, db_ok)
       IN /\ orders' = r.db
          /\ queues' = r.queues
          /\ unacked' = r.unacked
          /\ last' = [Idle EXCEPT !.op = "callback", !.order_id = body.order_id,
                                  !.queue = q, !.body = body, !.handler = r.handler,
                                  !.raised = r.raised, !.verdict = r.verdict,
                                  !.db_ok = (r.handler = None) \/ db_ok,
                                  !.calls = r.calls, !.writes = r.writes,
                                  !.assigned = r.assigned, !.session = r.session,
                                  !.acks = r.acks, !.nacks = r.nacks,
                                  !.before = StatusOf(orders, body.order_id),
                                  !.after = StatusOf(r.db, body.order_id)]
    /\ UNCHANGED << traffic, publisher, consumer, exchange, requests >>

\* -------------------------------------------------------------- processes
\* Starting the entry point of queue q; refusals are the numbers of
\* connection attempts the broker may refuse from then on.
main(q, refusals) ==
    /\ consumer[q].pc = "init"
    /\ IF import_base_consumer(q) # NoError
       THEN /\ consumer' = [consumer EXCEPT ![q].pc = "exited",
                                            ![q].error = import_base_consumer(q)]
            /\ last' = [Idle EXCEPT !.op = "main", !.queue = q,
                                    !.error = import_base_consumer(q)]
            /\ UNCHANGED exchange
       ELSE \E refused \in refusals :
            LET r == main_result(q, refused, exchange)
            IN /\ consumer' = [consumer EXCEPT ![q] =
                                  [pc |-> r.pc, error |-> r.error,
                                   declared |-> r.declared,
                                   connection |-> r.connection]]
               /\ exchange' = r.exchange
               /\ last' = [Idle EXCEPT !.op = "main", !.queue = q,
                                       !.net = Net(refused, "ok"),
                                       !.attempts = r.attempts, !.error = r.error]
    /\ UNCHANGED << orders, queues, unacked, traffic, publisher, requests >>

\* The broker delivers to the process that consumes from q.
basic_deliver(q) ==
    /\ consumer[q].pc = "consuming"
    /\ Deliver(q)

\* on_message_callback as it would be with auto_ack=True: the broker settles
\* a message when it delivers it, and has nothing to put back when the
\* process ends.
on_message_callback_auto_ack(q, db_ok) ==
    /\ consumer[q].pc = "consuming"
    /\ unacked[q] # << >>
    /\ consumer' = [consumer EXCEPT ![q].pc = "exited",
                                    ![q].connection = "closed",
                                    ![q].error = Error("TypeError")]
    /\ unacked' = [unacked EXCEPT ![q] = << >>]
    /\ last' = [Idle EXCEPT !.op = "on_message_callback", !.queue = q,
                            !.order_id = Head(unacked[q]).order_id,
                            !.body = Head(unacked[q]),
                            !.raised = TRUE, !.error = Error("TypeError")]
    /\ UNCHANGED << orders, queues, traffic, publisher, exchange, requests >>

\* The consuming loop invokes the registered on_message_callback,
\* self.callback, for the unsettled delivery.  An exception that escapes it
\* ends the process; its connection closes and the broker puts the unsettled
\* deliveries back in the queue.
on_message_callback(q, db_ok) ==
    /\ consumer[q].pc = "consuming"
    /\ unacked[q] # << >>
    /\ LET body == Head(unacked[q])
           r    == callback_result(queues, unacked, q, orders, db_ok)
       IN IF bound_callback_args = callback_params
          THEN /\ orders' = r.db
               /\ queues' = r.queues
               /\ unacked' = r.unacked
               /\ last' = [Idle EXCEPT !.op = "on_message_callback", !.queue = q,
                                       !.order_id = body.order_id, !.body = body,
                                       !.handler = r.handler, !.raised = r.raised,
                                       !.verdict = r.verdict,
                                       !.db_ok = (r.handler = None) \/ db_ok,
                                  !.calls = r.calls, !.writes = r.writes,
                                  !.assigned = r.assigned, !.session = r.session,
                                  !.acks = r.acks, !.nacks = r.nacks,
                                       !.before = StatusOf(orders, body.order_id),
                                       !.after = StatusOf(r.db, body.order_id)]
               /\ UNCHANGED consumer
          ELSE /\ consumer' = [consumer EXCEPT ![q].pc = "exited",
                                               ![q].connection = "closed",
                                               ![q].error = Error("TypeError")]
               /\ queues' = [queues EXCEPT ![q] = unacked[q] \o @]
               /\ unacked' = [unacked EXCEPT ![q] = << >>]
               /\ last' = [Idle EXCEPT !.op = "on_message_callback", !.queue = q,
                                       !.order_id = body.order_id, !.body = body,
                                       !.raised = TRUE, !.error = Error("TypeError")]
               /\ UNCHANGED orders
    /\ UNCHANGED << traffic, publisher, exchange, requests >>

\* The broker or the network closes the publisher's open connection.
connection_closed ==
    /\ publisher.connection = "open"
    /\ publisher' = [connection |-> "closed", channel |-> "closed"]
    /\ last' = [Idle EXCEPT !.op = "connection_closed"]
    /\ UNCHANGED << orders, queues, unacked, traffic, consumer, exchange, requests >>

\* Some caller closes the endpoints' publisher.
close_publisher ==
    LET r == close(publisher)
    IN /\ publisher' = r.publisher
       /\ last' = [Idle EXCEPT !.op = "close", !.before = publisher.connection,
                               !.after = r.publisher.connection,
                               !.closes = r.closes, !.error = r.error]
       /\ UNCHANGED << orders, queues, unacked, traffic, consumer, exchange,
                       requests >>

\* The except KeyboardInterrupt clause of the entry point of q, reached from
\* the consuming loop: consumer.close(), then the process ends.  is_closed
\* tells whether the broker had closed the connection before.  The broker
\* puts the unsettled deliveries of the ended consumer back in the queue.
KeyboardInterrupt(q, is_closed) ==
    /\ consumer[q].pc = "consuming"
    /\ LET connection == IF is_closed THEN "closed" ELSE consumer[q].connection
           r == BaseConsumer_close(connection)
       IN /\ consumer' = [consumer EXCEPT ![q].pc = "exited",
                                          ![q].connection = "closed",
                                          ![q].error = r.error]
          /\ last' = [Idle EXCEPT !.op = "KeyboardInterrupt", !.queue = q,
                                  !.before = connection, !.after = r.connection,
                                  !.closes = r.closes, !.error = r.error]
    /\ queues' = [queues EXCEPT ![q] = unacked[q] \o @]
    /\ unacked' = [unacked EXCEPT ![q] = << >>]
    /\ UNCHANGED << orders, traffic, publisher, exchange, requests >>

\* A producer of the run's traffic publishes one of its messages.
Producer == \E m \in Produced(traffic) : Publish(m[1], m[2])

\* The endpoints, the exchange's other clients and the consumers' callback
\* with a reachable broker.
Next ==
    \/ \E items \in {"empty", "missing", "ok"} : create_order(items, {Healthy})
    \/ \E id \in IdInputs : pay_order(id, {Healthy})
    \/ \E id \in IdInputs : mark_order_ready_to_ship(id, {Healthy})
    \/ \E id \in IdInputs : mark_order_shipped(id, {Healthy})
    \/ \E id \in IdInputs : mark_order_delivered(id, {Healthy})
    \/ \E products \in BOOLEAN, count \in 1..MaxOrders : seed_orders(products, count)
    \/ Producer
    \/ \E q \in Queues : Deliver(q)
    \/ \E q \in Queues, db_ok \in BOOLEAN : callback(q, db_ok)

Spec == Init /\ [][Next]_vars

\* ------------------------------------------------------ unreliable broker
\* What the network may do during a call.
ConnectInputs == { Net(k, "ok") : k \in 0..MaxRefused }

NetInputs == ConnectInputs \cup { Net(0, s) : s \in SendOutcomes }

\* The orders tables the consumers' handlers can have left: the rows are
\* those of the first ids, each in any status.
Tables ==
    { o \in [1..MaxOrders -> StatusValues \cup {None}] :
        \A i \in 2..MaxOrders : o[i] # None => o[i - 1] # None }

\* The endpoints and the callback, over any such table, while the broker may
\* refuse connections, fail a send and close the publisher's connection.
InitFaults ==
    /\ orders \in Tables
    /\ queues = [ q \in Queues |-> << >> ]
    /\ unacked = [ q \in Queues |-> << >> ]
    /\ last = Idle
    /\ traffic = "canonical"
    /\ publisher = NewPublisher
    /\ consumer = [ q \in Queues |-> NotStarted ]
    /\ exchange = NoExchange
    /\ requests = [ w \in Workers |-> NoRequest ]

NextFaults ==
    \/ \E items \in {"empty", "missing", "ok"} : create_order(items, NetInputs)
    \/ \E id \in IdInputs : pay_order(id, NetInputs)
    \/ \E id \in IdInputs : mark_order_ready_to_ship(id, NetInputs)
    \/ \E id \in IdInputs : mark_order_shipped(id, NetInputs)
    \/ \E id \in IdInputs : mark_order_delivered(id, NetInputs)
    \/ connection_closed
    \/ \E q \in Queues : Deliver(q)
    \/ \E q \in Queues, db_ok \in BOOLEAN : callback(q, db_ok)

SpecFaults == InitFaults /\ [][NextFaults]_vars

\* ------------------------------------------------------ deployed processes
\* The consumer processes as their entry points start them, the broker
\* delivering only to a process in its consuming loop, beside create_order
\* and the exchange's other clients.
InitProcesses ==
    /\ Init
    /\ traffic = "canonical"

NextProcesses ==
    \/ \E q \in Queues : main(q, 0..MaxRefused)
    \/ \E q \in Queues : basic_deliver(q)
    \/ \E q \in Queues, db_ok \in BOOLEAN : on_message_callback(q, db_ok)
    \/ \E q \in Queues, is_closed \in BOOLEAN : KeyboardInterrupt(q, is_closed)
    \/ \E items \in {"empty", "missing", "ok"} : create_order(items, ConnectInputs)
    \/ Producer

SpecProcesses == InitProcesses /\ [][NextProcesses]_vars

\* ------------------------------------------------------ concurrent servers
\* Two server processes, each handling one call of a transition endpoint,
\* over any table of orders.
NextConcurrent ==
    \/ \E w \in Workers, op \in DOMAIN EndpointTable, order_id \in IdInputs :
          query_order(w, op, order_id)
    \/ \E w \in Workers : commit_publish(w)

SpecConcurrent == InitFaults /\ [][NextConcurrent]_vars

\* -------------------------------------------------------- closing connections
\* The entry points whose import statement succeeds.
Importable == { q \in Queues : import_base_consumer(q) = NoError }

\* The endpoints over any table of orders with a reachable broker, while the
\* publisher is closed by a caller or by the broker, and the consumer
\* processes that reach their constructor are started and interrupted.
NextClose ==
    \/ \E items \in {"empty", "missing", "ok"} : create_order(items, {Healthy})
    \/ \E id \in IdInputs : pay_order(id, {Healthy})
    \/ \E id \in IdInputs : mark_order_ready_to_ship(id, {Healthy})
    \/ \E id \in IdInputs : mark_order_shipped(id, {Healthy})
    \/ \E id \in IdInputs : mark_order_delivered(id, {Healthy})
    \/ close_publisher
    \/ connection_closed
    \/ \E q \in Importable : main(q, {0})
    \/ \E q \in Importable, is_closed \in BOOLEAN : KeyboardInterrupt(q, is_closed)

SpecClose == InitFaults /\ [][NextClose]_vars

\* ------------------------------------------------------------------- codec
\* Numbers are kept by the decimal numeral that denotes or prints them, in
\* cents, and by whether the number equals that numeral.  A Decimal with two
\* fraction digits is the numeral.
Decimal(cents) == [type |-> "Decimal", cents |-> cents, exact |-> TRUE]

\* float(x): the double nearest to x.  A double keeps 15 significant decimal
\* digits, so its repr is the numeral it was made from; it equals the numeral
\* only when cents/100 is a binary fraction, that is when 25 divides cents
\* (100 = 4 * 25).
float(x) == [type |-> "float", cents |-> x.cents, exact |-> x.cents % 25 = 0]

\* EnhancedJSONEncoder.default, called for a value json cannot serialise.
EnhancedJSONEncoder_default(obj) ==
    IF obj.type = "Decimal" THEN float(obj) ELSE obj

\* json.dumps(data, cls=EnhancedJSONEncoder) on an envelope with a price: a
\* float is written as its repr, a Decimal as what default returns for it.
json_dumps(data) ==
    LET number == IF data.total_price.type = "float"
                  THEN data.total_price
                  ELSE EnhancedJSONEncoder_default(data.total_price)
    IN [event |-> data.event, order_id |-> data.order_id,
        total_price |-> [type |-> "text", cents |-> number.cents]]

\* json.loads on that text: a numeral with a fraction is parsed as a float.
json_loads_event(body) ==
    [event |-> body.event, order_id |-> body.order_id,
     total_price |-> float(body.total_price)]

\* The envelope create_order builds for the total price of an order, encoded
\* as publish_event encodes it and decoded as the callback decodes it.
encode_decode ==
    /\ last.op = "calculate_total"
    /\ LET event_data == [event |-> "OrderCreated", order_id |-> last.order_id,
                          total_price |-> float(last.total_price)]
           event      == json_loads_event(json_dumps(event_data))
       IN last' = [last EXCEPT !.op = "encode_decode", !.order_id = event.order_id,
                               !.decoded = event.total_price]
    /\ UNCHANGED << orders, queues, unacked, traffic, publisher, consumer,
                    exchange, requests >>

\* The codec over the total prices of up to MaxCents cents that
\* calculate_total may return for an order.
InitCodec ==
    /\ orders = [ i \in 1..MaxOrders |-> DefaultStatus ]
    /\ queues = [ q \in Queues |-> << >> ]
    /\ unacked = [ q \in Queues |-> << >> ]
    /\ \E order_id \in 1..MaxOrders, cents \in 0..MaxCents :
          last = [Idle EXCEPT !.op = "calculate_total", !.order_id = order_id,
                              !.total_price = Decimal(cents)]
    /\ traffic = "canonical"
    /\ publisher = NewPublisher
    /\ consumer = [ q \in Queues |-> NotStarted ]
    /\ exchange = NoExchange
    /\ requests = [ w \in Workers |-> NoRequest ]

NextCodec == encode_decode

SpecCodec == InitCodec /\ [][NextCodec]_vars

\* ---------------------------------------------------------------- draining
\* The messages the producers of traffic t have published when they stop: up
\* to MaxQueue of them, in any order.
Backlogs(t) == UNION { [1..n -> Produced(t)] : n \in 0..MaxQueue }

\* The queues after the broker has routed the messages of a backlog.
RECURSIVE Routed(_)
Routed(ms) ==
    IF ms = << >> THEN [ q \in Queues |-> << >> ]
    ELSE LET m == ms[Len(ms)]
         IN basic_publish(Routed(SubSeq(ms, 1, Len(ms) - 1)), m[1], m[2])

\* The consumers alone, after the endpoints and the exchange's other clients
\* have stopped publishing: any table of orders, and what the publishers left
\* in the queues.
InitDrain ==
    /\ orders \in Tables
    /\ traffic \in Traffic \cup {"crossed"}
    /\ \E ms \in Backlogs(traffic) : queues = Routed(ms)
    /\ unacked = [ q \in Queues |-> << >> ]
    /\ last = Idle
    /\ publisher = NewPublisher
    /\ consumer = [ q \in Queues |-> NotStarted ]
    /\ exchange = NoExchange
    /\ requests = [ w \in Workers |-> NoRequest ]

NextDrain ==
    \/ \E q \in Queues : Deliver(q)
    \/ \E q \in Queues, db_ok \in BOOLEAN : callback(q, db_ok)

SpecDrain == InitDrain /\ [][NextDrain]_vars

\* The same over the table the endpoints leave when no consumer has run yet:
\* every order in the column default.
InitDrainFair ==
    /\ InitDrain
    /\ orders = [ i \in 1..MaxOrders |-> DefaultStatus ]

\* The consumers are processes in their consuming loops: while a message can
\* be delivered or a delivery is held, some consumer takes a step.
SpecDrainFair == InitDrainFair /\ [][NextDrain]_vars /\ WF_vars(NextDrain)

\* ====================================================================
\* Properties
\* ====================================================================

\* The transition table: the status each handler's notification requires
\* before it, and the status it leads to.
RequiredPrior ==
    [ h \in { handlers[t] : t \in DOMAIN handlers } |->
        CASE h = "handle_order_created" -> "created"
          [] h = "handle_order_payed" -> "pending_payment"
          [] h = "handle_order_ready_to_ship" -> "in_preparation"
          [] h = "handle_shipped" -> "ready_to_ship"
          [] h = "handle_delivered" -> "shipped" ]

\* The canonical spelling of a legacy type tag.
CanonOf ==
    [ t \in LegacyTags |-> CHOOSE k \in RoutingKeys : LegacyOf[k] = t ]

\* A step in which the consumer of q settles its oldest delivery.
Settles(q) == Len(unacked'[q]) < Len(unacked[q])

\* C1 -- Transition guard: a handler that runs on an existing order whose
\* status is not the one the transition table requires for its notification
\* fails (the callback rejects the message) and leaves the status as it was.
C1_TransitionGuard ==
    ( /\ last.op = "callback"
      /\ last.handler # None
      /\ last.before # None
      /\ last.before # RequiredPrior[last.handler] )
    => ( last.raised /\ last.verdict = "nack" /\ last.after = last.before )

\* C2 -- Forward-only status: every change of an order's status is the
\* insertion of the row in status created or a move from a status to its
\* successor in OrderStatus; a delivered order never changes again.
C2_ForwardOnly ==
    [][ \A i \in DOMAIN orders :
          orders'[i] # orders[i] =>
            \/ orders[i] = None /\ orders'[i] = "created"
            \/ orders[i] # None /\ Rank(orders'[i]) = Rank(orders[i]) + 1 ]_vars

\* C3 -- Idempotent replay: when the notification the consumer has just
\* applied validly (the order was in the required prior status and the
\* message was acknowledged) is delivered again, the second processing fails,
\* the message is rejected without requeue and the status does not change.
C3_IdempotentReplay ==
    [][ \A q \in Queues :
          ( /\ Settles(q)
            /\ last.op = "callback"
            /\ last.verdict = "ack"
            /\ last.handler # None
            /\ last.before = RequiredPrior[last.handler]
            /\ Head(unacked[q]) = last.body
            /\ last'.handler # None )
          => ( /\ last'.raised
               /\ last'.verdict = "nack"
               /\ queues' = queues
               /\ orders' = orders ) ]_vars

\* C4 -- Acknowledgment policy: every settled delivery leaves the broker for
\* good (it goes back to no queue); it is acknowledged when parsing and
\* dispatch completed normally and rejected without requeue when either
\* raised; a body that is no JSON object always raises.
C4_AckPolicy ==
    [][ \A q \in Queues :
          Settles(q) =>
            /\ last'.op = "callback" /\ last'.queue = q
            /\ last'.body = Head(unacked[q])
            /\ last'.verdict = IF last'.raised THEN "nack" ELSE "ack"
            /\ Head(unacked[q]).kind # "object" => last'.raised
            /\ unacked'[q] = Tail(unacked[q])
            /\ queues' = queues
            /\ Held(queues', unacked') = Held(queues, unacked) - 1 ]_vars

\* A handler raised and the message was rejected.
C4_Witness ==
    /\ last.op = "callback"
    /\ last.handler # None
    /\ last.raised
    /\ last.verdict = "nack"
    /\ Held(queues, unacked) = 0

\* C5 -- End-to-end creation: the message create_order publishes for a new
\* order, once the order-created consumer has settled it, was dispatched to
\* the order-created handler, the order is in pending_payment and the message
\* was acknowledged.
C5_EndToEndCreation ==
    ( /\ last.op = "callback"
      /\ last.queue = "order_created_queue"
      /\ last.body = Envelope("OrderCreated", last.order_id)
      /\ last.before = "created" )
    => ( /\ last.handler = "handle_order_created"
         /\ last.after = "pending_payment"
         /\ last.verdict = "ack" )

\* C6 -- Unknown-type tolerance: settling an envelope whose event type has no
\* registered handler invokes no handler, raises nothing, changes no order
\* and acknowledges the message.
C6_UnknownTypeTolerance ==
    [][ \A q \in Queues :
          ( /\ Settles(q)
            /\ Head(unacked[q]).kind = "object"
            /\ Head(unacked[q]).event # None
            /\ Head(unacked[q]).event \notin DOMAIN handlers )
          => ( /\ last'.handler = None
               /\ ~last'.raised
               /\ last'.verdict = "ack"
               /\ orders' = orders
               /\ queues' = queues ) ]_vars

\* An envelope of an unregistered type for an existing order was acknowledged.
C6_Witness ==
    /\ last.op = "callback"
    /\ last.body = Envelope(UnknownTag, 1)
    /\ last.before # None
    /\ last.verdict = "ack"

\* C7 -- Malformed envelope: a body that cannot be parsed, or that parses to
\* an object without the event-type field, invokes no handler, changes no
\* order and is rejected without requeue.
C7_MalformedEnvelope ==
    ( /\ last.op = "callback"
      /\ \/ last.body.kind = "garbage"
         \/ last.body.kind = "object" /\ last.body.event = None )
    => ( /\ last.handler = None
         /\ last.after = last.before
         /\ last.verdict = "nack" )

\* C8 -- Legacy alias tolerance: an envelope tagged with a legacy spelling is
\* dispatched to the handler of the canonical tag and, when nothing raises,
\* leaves the orders as the canonical envelope would.
C8_LegacyAlias ==
    [][ \A q \in Queues :
          ( Settles(q) /\ Head(unacked[q]).kind = "object"
                       /\ Head(unacked[q]).event \in LegacyTags )
          => LET b == Head(unacked[q])
                 c == dispatch_event(Envelope(CanonOf[b.event], b.order_id), orders, TRUE)
             IN /\ last'.handler = c.handler
                /\ ~last'.raised => orders' = c.db ]_vars

\* The operations of the order endpoints.
EndpointOps ==
    { "create_order", "pay_order", "mark_order_ready_to_ship",
      "mark_order_shipped", "mark_order_delivered" }

\* C9 -- Routing: the routing key of every event an order endpoint publishes
\* is the binding key of exactly one consumer queue.
C9_Routing ==
    ( last.op \in EndpointOps /\ last.routing_key # None )
    => Cardinality(Route(last.routing_key)) = 1

\* C10 -- Prefetch-1 ordering: a consumer holds at most one unsettled
\* delivery; the broker delivers to it only when it holds none, and what it
\* delivers is the oldest ready message of the queue.
C10_PrefetchOne ==
    [][ \A q \in Queues :
          /\ Len(unacked'[q]) <= 1
          /\ ( unacked'[q] # unacked[q] /\ unacked'[q] # << >> )
             => ( /\ unacked[q] = << >>
                  /\ queues[q] # << >>
                  /\ unacked'[q] = << Head(queues[q]) >>
                  /\ queues'[q] = Tail(queues[q]) ) ]_vars

\* One delivery is unsettled while a different message waits behind it.
C10_Witness ==
    \E q \in Queues :
        /\ Len(unacked[q]) = 1
        /\ queues[q] # << >>
        /\ Head(queues[q]) # Head(unacked[q])

\* C11 -- Consumer processes run: a consumer process ends only because the
\* broker refused every connection attempt of its constructor, and every
\* invocation of the message callback by the consuming loop settles the
\* delivery with an ack or a reject.
C11_ConsumersRun ==
    [][ \A q \in Queues :
          /\ ( consumer[q].pc # "exited" /\ consumer'[q].pc = "exited" )
             => \/ last'.op = "KeyboardInterrupt"
                \/ ( /\ last'.op = "main"
                     /\ last'.net.refused >= 5
                     /\ last'.attempts = 5 )
          /\ ( last'.op = "on_message_callback" /\ last'.queue = q
               /\ unacked[q] # << >> /\ unacked'[q] # unacked[q] )
             => ( /\ last'.verdict \in {"ack", "nack"}
                  /\ unacked'[q] = Tail(unacked[q])
                  /\ queues'[q] = queues[q] ) ]_vars

\* C12 -- Connection retry budget: a constructor or a connect step that the
\* broker refuses k times before it accepts makes exactly k + 1 attempts when
\* k <= 4 and has its connection, and makes exactly 5 attempts and fails
\* without one when k >= 5.
C12_RetryBudget ==
    LET k == last.net.refused
        budget == IF k <= 4 THEN k + 1 ELSE 5
    IN /\ ( last.op = "main" /\ last.error.type # "ImportError" )
          => ( /\ last.attempts = budget
               /\ (consumer[last.queue].connection # None) = (k <= 4)
               /\ (last.error.type \in {"EventConsumptionError", "TypeError"}
                     /\ consumer[last.queue].connection = None) = (k >= 5) )
       /\ ( last.op = "create_order" /\ last.attempts # 0 )
          => ( /\ last.attempts = budget
               /\ (last.error.type = "Exception") = (k >= 5)
               /\ (publisher.connection = "open") = (k <= 4) )

\* The publisher connected at its fifth attempt and sent the event, beside a
\* consumer constructor that gave up after its attempts.
C12_Witness ==
    /\ last.op = "create_order"
    /\ last.net.refused = 4
    /\ last.attempts = 5
    /\ last.sent
    /\ consumer["order_shipped_queue"].pc = "exited"
    /\ consumer["order_shipped_queue"].connection = None

\* C13 -- Consumer start-up failure: a constructor whose five connection
\* attempts were all refused raises EventConsumptionError, and the process
\* ends without having declared exchange, queue or binding.
C13_StartupFailure ==
    ( last.op = "main" /\ last.attempts = 5 /\ last.net.refused >= 5 )
    => ( /\ last.error.type = "EventConsumptionError"
         /\ consumer[last.queue].pc = "exited"
         /\ ~consumer[last.queue].declared )

\* A step in which an order endpoint got as far as its publish_event call.
CallsPublish ==
    /\ last' # last
    /\ last'.op \in EndpointOps
    /\ last'.code \notin {400, 404}

\* C14 -- Publisher connection failure: a publish call that needs a
\* connection while the broker refuses five attempts ends with an error for
\* the caller after exactly five attempts, hands no message to the broker and
\* leaves the publisher without a connection.
C14_ConnectFailure ==
    [][ ( /\ CallsPublish
          /\ publisher.connection # "open"
          /\ last'.net.refused >= 5 )
        => ( /\ last'.error # NoError
             /\ last'.code = 500
             /\ last'.attempts = 5
             /\ ~last'.sent
             /\ queues' = queues
             /\ publisher'.connection # "open" ) ]_vars

\* pay_order committed in_preparation and its publish call failed to connect.
C14_Witness ==
    /\ last.op = "pay_order"
    /\ last.net.refused >= 5
    /\ last.attempts = 5
    /\ last.code = 500
    /\ orders[1] = "in_preparation"

\* C15 -- Lazy connection and reuse: a new publisher has made no connection
\* attempt; a publish call makes attempts exactly when the connection is not
\* open; a call on an open connection declares nothing and, when it sends,
\* leaves connection and channel as they were; a call that connects declares
\* the exchange once.
C15_LazyReuse ==
    /\ ( publisher = NewPublisher /\ last.attempts = 0 )
    /\ [][ CallsPublish =>
            /\ (last'.attempts > 0) = (publisher.connection # "open")
            /\ publisher.connection = "open"
               => ( last'.declares = 0 /\ (last'.sent => publisher' = publisher) )
            /\ last'.declares = IF last'.attempts > 0 /\ last'.net.refused <= 4
                                THEN 1 ELSE 0 ]_vars

\* An endpoint sent its event over the connection an earlier call had opened.
C15_Witness ==
    /\ last.op = "mark_order_ready_to_ship"
    /\ last.sent
    /\ last.attempts = 0
    /\ last.declares = 0
    /\ publisher.connection = "open"

\* C16 -- Publish failure propagation: when the send on the publisher's
\* channel fails, the caller gets an EventPublishingError naming the event
\* type, nothing is handed to the broker, and the status the endpoint
\* committed before the call stays in the table.
C16_PublishFailure ==
    [][ ( /\ CallsPublish
          /\ publisher.connection = "open" \/ last'.net.refused <= 4
          /\ \/ last'.net.send # "ok"
             \/ publisher.connection = "open" /\ publisher.channel # "open" )
        => ( /\ last'.error = [type |-> "EventPublishingError",
                               event_type |-> EndpointEvent[last'.op]]
             /\ last'.code = 500
             /\ ~last'.sent
             /\ queues' = queues
             /\ orders'[last'.order_id] = last'.after
             /\ orders'[last'.order_id] # orders[last'.order_id] ) ]_vars

\* pay_order committed in_preparation and the send of its event failed.
C16_Witness ==
    /\ last.op = "pay_order"
    /\ last.error.type = "EventPublishingError"
    /\ last.before = "pending_payment"
    /\ orders[1] = "in_preparation"
    /\ \A q \in Queues : queues[q] = << >>

\* C17 -- Commit before publish: when an endpoint has sent an event, the
\* status it reports is the one in the table; a call that ends with 400 or
\* 404 changes no row and sends nothing.
C17_CommitBeforePublish ==
    [][ ( last' # last /\ last'.op \in EndpointOps )
        => ( /\ last'.sent => orders'[last'.order_id] = last'.after
             /\ last'.code \in {400, 404}
                => ( orders' = orders /\ ~last'.sent /\ queues' = queues ) ) ]_vars

C19_PayFreshOrder ==
    [][ ( /\ last.op = "create_order" /\ last.code = 201
          /\ last'.op = "pay_order"
          /\ last'.order_id = last.order_id )
        => ( last'.code = 200 /\ last'.after = "paid" ) ]_vars

\* C20 -- A created and paid order can be shipped: the shipping request that
\* follows a pay call on an existing order answers 200, reports the status
\* shipped and carries tracking info.
C20_ShipPaidOrder ==
    [][ ( /\ last.op = "pay_order" /\ last.code # 404
          /\ last'.op = "mark_order_shipped"
          /\ last'.order_id = last.order_id )
        => ( /\ last'.code = 200
             /\ last'.after = "shipped"
             /\ last'.tracking_info # None ) ]_vars
C22_IdempotentTopology ==
    /\ last.error.type # "ChannelClosedByBroker"
    /\ \A q \in Queues : consumer[q].error.type # "ChannelClosedByBroker"

\* C23 -- Order not found: when a handler runs for a notification whose
\* order_id names no stored order and the database answers its query, it
\* raises nothing, no order changes, and the message is acknowledged.
C23_OrderNotFound ==
    [][ \A q \in Queues :
          ( /\ Settles(q)
            /\ last'.op = "callback"
            /\ last'.handler # None
            /\ last'.db_ok
            /\ StatusOf(orders, last'.body.order_id) = None )
          => ( /\ ~last'.raised
               /\ last'.verdict = "ack"
               /\ orders' = orders
               /\ unacked'[q] = Tail(unacked[q])
               /\ queues' = queues ) ]_vars

\* handle_order_created ran for an order id that names no row, and the
\* message was acknowledged.
C23_Witness ==
    /\ last.op = "callback"
    /\ last.handler = "handle_order_created"
    /\ last.db_ok
    /\ last.body.order_id = MaxOrders + 1
    /\ last.before = None
    /\ last.after = None
    /\ last.verdict = "ack"

\* C24 -- close() is safe to repeat: close() on a publisher whose connection
\* is closed or was never opened, or on a consumer whose connection is closed,
\* closes nothing, changes nothing and raises nothing; on an open connection
\* it closes that connection with one call; and a publish call on a closed
\* publisher that the broker accepts opens a connection with one attempt.
C24_CloseRepeatable ==
    [][ /\ ( last'.op = "close" /\ << last, publisher >>' # << last, publisher >> )
           => ( /\ last'.error = NoError
                /\ last'.before = publisher.connection
                /\ IF publisher.connection = "open"
                   THEN /\ last'.closes = 1
                        /\ publisher'.connection = "closed"
                   ELSE /\ last'.closes = 0
                        /\ publisher' = publisher )
        /\ ( last'.op = "KeyboardInterrupt" /\ last' # last )
           => ( /\ last'.error = NoError
                /\ last'.after = "closed"
                /\ last'.closes = IF last'.before = "open" THEN 1 ELSE 0 )
        /\ ( CallsPublish /\ publisher.connection = "closed" )
           => ( /\ last'.attempts = 1
                /\ publisher'.connection = "open" ) ]_vars

\* close() was called on a publisher whose connection was closed already,
\* beside a consumer process that was interrupted and closed its connection.
C24_Witness ==
    /\ last.op = "close"
    /\ last.before = "closed"
    /\ last.closes = 0
    /\ last.error = NoError
    /\ publisher.connection = "closed"
    /\ consumer["order_shipped_queue"].pc = "exited"
    /\ consumer["order_shipped_queue"].connection = "closed"
    /\ consumer["order_shipped_queue"].error = NoError

\* C25 -- Initial status: a row of the orders table comes into existence
\* only through create_order or seeding, and its status is created in the
\* state in which it first exists.
C25_InitialStatus ==
    [][ \A i \in DOMAIN orders :
          ( orders[i] = None /\ orders'[i] # None )
          => ( /\ orders'[i] = "created"
               /\ last'.op \in {"create_order", "seed_orders"}
               /\ last'.after = "created" ) ]_vars

\* create_order has just inserted the first order, in status created.
C25_Witness ==
    /\ last.op = "create_order"
    /\ last.code = 201
    /\ last.order_id = 1
    /\ orders[1] = "created"

\* C26 -- Codec round-trip: for every envelope with an integer order_id and
\* a price of at most two fraction digits, the decoded envelope has the same
\* order_id and a price that is the same number as the decimal encoded.
C26_CodecRoundTrip ==
    last.op = "encode_decode"
    => ( /\ last.order_id \in 1..MaxOrders
         /\ last.decoded.cents = last.total_price.cents
         /\ last.decoded.exact = last.total_price.exact )

\* C27 -- Persistent delivery: every message an endpoint's publish call
\* hands to the broker, whatever its event type and payload, goes to the
\* publisher's exchange with delivery mode 2, persistent; a call that hands
\* over nothing names no exchange.
C27_PersistentDelivery ==
    /\ ( last.op \in EndpointOps /\ last.sent )
       => ( /\ last.to = "order_exchange"
            /\ last.delivery_mode = 2
            /\ last.routing_key = EndpointEvent[last.op]
            /\ last.body.order_id = last.order_id )
    /\ ( last.op \in EndpointOps /\ ~last.sent )
       => ( last.to = None /\ last.delivery_mode = 0 )

\* pay_order connected at its third attempt and handed its event to the
\* broker as a persistent message.
C27_Witness ==
    /\ last.op = "pay_order"
    /\ last.net.refused = 2
    /\ last.sent
    /\ last.to = exchange_name
    /\ last.delivery_mode = delivery_mode
    /\ last.body = Envelope("OrderPaid", last.order_id)

\* The handler the dispatcher module registers for each canonical type.
Registered ==
    [ t \in CanonicalTags |->
        CASE t = "order.created" -> "handle_order_created"
          [] t = "order.paid" -> "handle_order_payed"
          [] t = "order.ready.to.ship" -> "handle_order_ready_to_ship"
          [] t = "order.shipped" -> "handle_shipped"
          [] t = "order.delivered" -> "handle_delivered" ]

\* C28 -- Dispatch registry: the registry maps exactly the five canonical
\* event types, each to its handler; dispatching an envelope of a registered
\* type calls that type's handler once and no other, and ends as that call
\* ends; dispatching any other envelope calls no handler.
C28_DispatchRegistry ==
    /\ handlers = Registered
    /\ [][ \A q \in Queues :
             ( /\ Settles(q)
               /\ last'.op = "callback"
               /\ last'.body.kind = "object" )
             => IF last'.body.event \in CanonicalTags
                THEN LET h == Registered[last'.body.event]
                         r == Call(h, last'.body, orders, last'.db_ok)
                     IN /\ last'.handler = h
                        /\ last'.calls = 1
                        /\ last'.raised = r.raised
                        /\ orders' = r.db
                ELSE /\ last'.handler = None
                     /\ last'.calls = 0
                     /\ orders' = orders ]_vars

\* The envelope of order.shipped was dispatched to handle_shipped, which
\* wrote its status.
C28_Witness ==
    /\ last.op = "callback"
    /\ last.body = Envelope("order.shipped", 1)
    /\ last.handler = "handle_shipped"
    /\ last.calls = 1
    /\ last.after = "shipped"

\* The status each canonical type's handler is to leave.
TargetStatus ==
    [ t \in CanonicalTags |->
        CASE t = "order.created" -> "pending_payment"
          [] t = "order.paid" -> "in_preparation"
          [] t = "order.ready.to.ship" -> "ready_to_ship"
          [] t = "order.shipped" -> "shipped"
          [] t = "order.delivered" -> "delivered" ]

\* C29 -- Handler postcondition: when the handler of a canonical event type
\* runs on an existing order and its commit succeeds, the order's status
\* afterwards is the target status of the type, one assignment to the status
\* was made, and the table differs from the one before in that row at most.
C29_HandlerPostcondition ==
    [][ \A q \in Queues :
          ( /\ Settles(q)
            /\ last'.op = "callback"
            /\ last'.body.kind = "object"
            /\ last'.body.event \in CanonicalTags
            /\ last'.handler # None
            /\ ~last'.raised
            /\ StatusOf(orders, last'.body.order_id) # None )
          => ( /\ orders' = [orders EXCEPT ![last'.body.order_id] =
                                 TargetStatus[last'.body.event]]
               /\ last'.after = TargetStatus[last'.body.event]
               /\ last'.writes = 1 ) ]_vars

\* The handler of order.paid ran on an order that was pending payment and
\* left it in preparation.
C29_Witness ==
    /\ last.op = "callback"
    /\ last.body = Envelope("order.paid", 1)
    /\ last.handler = "handle_order_payed"
    /\ ~last.raised
    /\ last.before = "pending_payment"
    /\ last.after = "in_preparation"
    /\ last.writes = 1

\* C30 -- Concurrent duplicate requests: of two calls of the same
\* transition endpoint for the same order in different server processes, at
\* most one answers 200 and at most one publishes the event; when one
\* answers 200 the other answers 400.
C30_ConcurrentDuplicates ==
    \A w1, w2 \in Workers :
        ( /\ w1 # w2
          /\ requests[w1].pc = "done"
          /\ requests[w2].pc = "done"
          /\ requests[w1].op = requests[w2].op
          /\ requests[w1].order_id = requests[w2].order_id
          /\ requests[w1].code = 200 )
        => ( /\ requests[w2].code = 400
             /\ ~requests[w2].sent )

\* C31 -- create_order is all-or-nothing: a create_order call that answers
\* 404 because an item names no product leaves the orders table and the
\* queues as they were before the call, and has published nothing.
C31_CreateAllOrNothing ==
    [][ ( last'.op = "create_order" /\ last'.code = 404 )
        => ( /\ orders' = orders
             /\ queues' = queues
             /\ ~last'.sent ) ]_vars

\* C32 -- Publisher recovery: whatever failed in earlier publish calls, a
\* publish call made while the broker is healthy hands its message to the
\* broker and raises nothing, and leaves the publisher with an open channel.
C32_PublisherRecovery ==
    [][ ( CallsPublish /\ last'.net = Healthy )
        => ( /\ last'.sent
             /\ last'.error = NoError
             /\ publisher'.connection = "open"
             /\ publisher'.channel = "open" ) ]_vars

Drained == \A q \in Queues : queues[q] = << >> /\ unacked[q] = << >>

AtQueue(q, body, db_ok) ==
    callback_result(queues, [unacked EXCEPT ![q] = << body >>], q, orders, db_ok)

\* C35 -- Dispatch ignores the queue: the handler a callback applies is the
\* one registered for the type tag in the body, whatever queue the body came
\* from; the consumer of every other queue would call the same handler on
\* the body, end the same way, give the same verdict and leave the same
\* table; and a canonical body on a queue of another type moves an existing
\* order to the target status of the body's type.
C35_DispatchIgnoresQueue ==
    [][ \A q \in Queues :
          Settles(q) =>
            LET body == Head(unacked[q])
            IN /\ last'.handler =
                    IF body.kind = "object" /\ body.event \in CanonicalTags
                    THEN Registered[body.event] ELSE None
               /\ \A q2 \in Queues :
                     LET r == AtQueue(q2, body, last'.db_ok)
                     IN /\ r.handler = last'.handler
                        /\ r.raised = last'.raised
                        /\ r.verdict = last'.verdict
                        /\ r.db = orders'
               /\ ( /\ last'.handler # None
                    /\ ~last'.raised
                    /\ StatusOf(orders, body.order_id) # None )
                  => orders' = [orders EXCEPT ![body.order_id] =
                                    TargetStatus[body.event]] ]_vars

\* The consumer of the order-created queue applied the paid transition of a
\* body of type order.paid delivered to it.
C35_Witness ==
    /\ last.op = "callback"
    /\ last.queue = "order_created_queue"
    /\ last.body = Envelope("order.paid", 1)
    /\ last.handler = "handle_order_payed"
    /\ last.verdict = "ack"
    /\ last.after = "in_preparation"

C37_SessionRelease ==
    ( last.op = "callback" /\ last.handler # None )
    => last.session = "closed"

====
